---------------------------- MODULE Spec2Model ----------------------------
(***************************************************************************)
(* A model of epubifyer: the Epub document model (items, spine, toc), the  *)
(* chapter / image pipeline, the packager, the XHTML serializer and the    *)
(* allow-list sanitizer.                                                   *)
(*                                                                         *)
(* Strings are sequences of atoms.  An atom is either one special          *)
(* character ("&", "<", ">", "\"", ";", "#", ".", "?", ",", " ", "\n",     *)
(* "nbsp") or a run of letters or a run of digits; the escaping functions  *)
(* and the URL helpers work atom by atom, as the regular expressions of    *)
(* the source work character by character.                                 *)
(***************************************************************************)
EXTENDS Integers, Sequences, FiniteSets, TLC

(***************************************************************************)
(* Bounds of the model.                                                    *)
(***************************************************************************)
MaxOps == 3        \* operations issued on one document
MaxInFlight == 2   \* addChapter calls in flight (issued, not yet resolved)
MaxStrLen == 4     \* atoms in an input string of the escaping functions
MaxChapters == 2   \* addChapter calls of the chapter pipeline specification
MaxParts == 2      \* (order, html) pairs in one addChapter argument
MaxCands == 2      \* candidates of one srcset attribute
MaxNodes == 4      \* nodes of an input tree of the serializer and the sanitizer

(***************************************************************************)
(* Strings.                                                                *)
(***************************************************************************)
Letters == {"a", "amp", "lt", "gt", "quot", "w", "x", "png", "T"}
Digits == {"1", "160", "100", "200"}

RECURSIVE Join(_)
\* the text of a string: its atoms, concatenated
Join(s) == IF s = <<>> THEN "" ELSE Head(s) \o Join(Tail(s))

RECURSIVE Flatten(_)
\* the concatenation of a sequence of strings
Flatten(ss) == IF ss = <<>> THEN <<>> ELSE Head(ss) \o Flatten(Tail(ss))

\* the least index >= i from which s holds no atom of set S (Len(s)+1 if none)
RECURSIVE SkipRun(_, _, _)
SkipRun(s, i, S) ==
  IF i <= Len(s) /\ s[i] \in S THEN SkipRun(s, i + 1, S) ELSE i

\* the lookahead ([A-Za-z]+|#[0-9]+); at position i of s
IsEntityAt(s, i) ==
  LET afterLetters == SkipRun(s, i, Letters)
      afterDigits == SkipRun(s, i + 1, Digits)
  IN \/ /\ afterLetters > i
        /\ afterLetters <= Len(s)
        /\ s[afterLetters] = ";"
     \/ /\ i <= Len(s)
        /\ s[i] = "#"
        /\ afterDigits > i + 1
        /\ afterDigits <= Len(s)
        /\ s[afterDigits] = ";"

\* s.replace(/\n{2,}/g, "\n")
RECURSIVE CollapseNewlines(_)
CollapseNewlines(s) ==
  IF s = <<>> THEN <<>>
  ELSE IF Head(s) = "\n"
       THEN <<"\n">> \o CollapseNewlines(SubSeq(s, SkipRun(s, 1, {"\n"}), Len(s)))
       ELSE <<Head(s)>> \o CollapseNewlines(Tail(s))

\* s.replace(/&(?!([a-zA-Z]+|#[0-9]+);)/g, "&amp;")
EscapeBareAmp(s) ==
  Flatten([i \in 1..Len(s) |->
             IF s[i] = "&" /\ ~IsEntityAt(s, i + 1)
             THEN <<"&", "amp", ";">> ELSE <<s[i]>>])

\* s.replace(/&/g, "&amp;")
EscapeAmp(s) ==
  Flatten([i \in 1..Len(s) |->
             IF s[i] = "&" THEN <<"&", "amp", ";">> ELSE <<s[i]>>])

\* s.replace(/c/g, r) for one special character c
ReplaceAll(s, c, r) ==
  Flatten([i \in 1..Len(s) |-> IF s[i] = c THEN r ELSE <<s[i]>>])

fixText(text) ==
  LET s1 == CollapseNewlines(text)
      s2 == EscapeBareAmp(s1)
      s3 == ReplaceAll(s2, "<", <<"&", "lt", ";">>)
      s4 == ReplaceAll(s3, ">", <<"&", "gt", ";">>)
  IN ReplaceAll(s4, "nbsp", <<"&", "#", "160", ";">>)

fixAttribute(text) ==
  LET s1 == EscapeAmp(text)
      s2 == ReplaceAll(s1, "<", <<"&", "lt", ";">>)
      s3 == ReplaceAll(s2, ">", <<"&", "gt", ";">>)
      s4 == ReplaceAll(s3, "\"", <<"&", "quot", ";">>)
  IN ReplaceAll(s4, "nbsp", <<"&", "#", "160", ";">>)

escapeXml(str) ==
  LET s1 == EscapeBareAmp(str)
      s2 == ReplaceAll(s1, "<", <<"&", "lt", ";">>)
  IN ReplaceAll(s2, ">", <<"&", "gt", ";">>)


(***************************************************************************)
(* DOM nodes, as the HTML parser hands them over: an element has a tag, a  *)
(* sequence of attributes (name, value) and child nodes; a text node has   *)
(* data; any other node (a comment) has neither.                           *)
(***************************************************************************)
Elem(tag, attrs, children) ==
  [type |-> "element", tag |-> tag, attrs |-> attrs, children |-> children,
   data |-> <<>>]
Text(data) ==
  [type |-> "text", tag |-> "", attrs |-> <<>>, children |-> <<>>,
   data |-> data]
Comment(data) ==
  [type |-> "comment", tag |-> "", attrs |-> <<>>, children |-> <<>>,
   data |-> data]
Attr(name, value) == [name |-> name, value |-> value]

\* el.getAttribute(name): the value, or <<>> for null
getAttribute(el, name) ==
  IF \E i \in DOMAIN el.attrs : el.attrs[i].name = name
  THEN el.attrs[CHOOSE i \in DOMAIN el.attrs : el.attrs[i].name = name].value
  ELSE <<>>

hasAttribute(el, name) == \E i \in DOMAIN el.attrs : el.attrs[i].name = name

\* el.removeAttribute(name)
removeAttribute(el, name) ==
  [el EXCEPT !.attrs = SelectSeq(el.attrs, LAMBDA a : a.name # name)]

\* el.setAttribute(name, value): in place when present, appended otherwise
setAttribute(el, name, value) ==
  IF hasAttribute(el, name)
  THEN [el EXCEPT !.attrs =
          [i \in DOMAIN el.attrs |->
             IF el.attrs[i].name = name THEN Attr(name, value) ELSE el.attrs[i]]]
  ELSE [el EXCEPT !.attrs = Append(el.attrs, Attr(name, value))]

(***************************************************************************)
(* The XHTML serializer (convertHtmlToXhtml.processNode).  The output is a *)
(* string whose markup pieces are single atoms: "<tag", " name=\"", "\"",  *)
(* ">", " />" and "</tag>".                                                *)
(***************************************************************************)
VoidTags ==
  {"area", "base", "br", "col", "embed", "hr", "img", "input", "link",
   "meta", "param", "source", "track", "wbr"}

\* the attribute list of a start tag
AttrText(attrs) ==
  Flatten([i \in DOMAIN attrs |->
             <<" " \o attrs[i].name \o "=\"">> \o fixAttribute(attrs[i].value)
               \o <<"\"">>])

\* a mutant of IsVoidTag: img is serialized as a container element
IsVoidTagNoImg(tag) == tag \in VoidTags \ {"img"}

\* /^(area|base|br|...|wbr)$/i.test(tag)
IsVoidTag(tag) == tag \in VoidTags

RECURSIVE processNode(_)
processNode(node) ==
  CASE node.type = "text" -> fixText(node.data)
    [] node.type = "element" ->
         LET start == <<"<" \o node.tag>> \o AttrText(node.attrs)
         IN IF IsVoidTag(node.tag)
            THEN start \o <<" />">>
            ELSE start \o <<">">>
                 \o Flatten([i \in DOMAIN node.children |->
                               processNode(node.children[i])])
                 \o <<"</" \o node.tag \o ">">>
    [] OTHER -> <<>>

\* parts.join(sep)
RECURSIVE JoinWith(_, _)
JoinWith(parts, sep) ==
  IF parts = <<>> THEN <<>>
  ELSE IF Len(parts) = 1 THEN parts[1]
  ELSE parts[1] \o <<sep>> \o JoinWith(Tail(parts), sep)

\* Array.from(body.childNodes).map(processNode).join("\n")
JoinLines(parts) == JoinWith(parts, "\n")

convertHtmlToXhtml(body) ==
  JoinLines([i \in DOMAIN body |-> processNode(body[i])])

(***************************************************************************)
(* The allow-list sanitizer (preprocessHtmlWithDenoDom.cleanElement).      *)
(* cleanElement changes the tree in place; here it yields the nodes that   *)
(* stand in the place of el in its parent afterwards: none when el was     *)
(* removed, the replacement span, or el itself with its attributes and     *)
(* children cleaned.                                                       *)
(***************************************************************************)
allowedElements ==
  {"html", "head", "body", "meta", "section", "nav", "article", "aside",
   "h1", "h2", "h3", "h4", "h5", "h6", "header", "footer", "address", "p",
   "hr", "pre", "blockquote", "ol", "ul", "li", "dl", "dt", "dd", "figure",
   "figcaption", "main", "div", "a", "abbr", "area", "audio", "b", "bdi",
   "bdo", "br", "button", "canvas", "cite", "code", "data", "datalist",
   "del", "dfn", "em", "embed", "i", "iframe", "img", "input", "ins", "kbd",
   "label", "link", "map", "mark", "meter", "object", "output", "picture",
   "progress", "q", "ruby", "s", "samp", "script", "select", "slot", "small",
   "span", "strong", "sub", "sup", "template", "textarea", "time", "u",
   "var", "video", "wbr", "table", "caption", "colgroup", "col", "tbody",
   "thead", "tfoot", "tr", "td", "th", "form", "fieldset", "legend",
   "optgroup", "option", "epub:switch"}

allowedGlobalAttrs ==
  {"id", "class", "lang", "xml:lang", "dir", "title", "style", "epub:type",
   "role", "aria-label", "aria-hidden", "tabindex"}

allowedByTag(tag) ==
  CASE tag = "a" ->
         {"href", "target", "rel", "download", "hreflang", "type", "ping"}
    [] tag = "img" ->
         {"src", "alt", "width", "height", "loading", "decoding", "crossorigin"}
    [] tag = "link" -> {"href", "rel", "type", "media", "sizes", "crossorigin"}
    [] tag = "meta" -> {"name", "content", "http-equiv", "charset"}
    [] tag = "script" -> {"src", "type", "async", "defer", "crossorigin"}
    [] tag = "input" ->
         {"type", "name", "value", "checked", "placeholder", "readonly",
          "disabled", "required"}
    [] tag = "button" -> {"type", "name", "value", "disabled", "form"}
    [] tag = "form" ->
         {"action", "method", "enctype", "name", "target", "novalidate"}
    [] tag = "iframe" ->
         {"src", "srcdoc", "name", "sandbox", "allow", "allowfullscreen",
          "loading"}
    [] OTHER -> {}

\* the rests of the attribute names that begin with "data-"
DataNames == {"", "x", "id"}
\* name.startsWith("data-")
startsWithData(name) == \E rest \in DataNames : name = "data-" \o rest

isAllowed(tag, name) ==
  \/ name \in allowedGlobalAttrs
  \/ startsWithData(name)
  \/ name \in allowedByTag(tag)

RECURSIVE cleanElement(_)
RECURSIVE cleanLive(_, _)
RECURSIVE cleanSnapshot(_)

\* for (const child of span.childNodes) cleanElement(child): the list is
\* live and the iterator goes by index, so when the child at index i is
\* removed, the child after it moves to i and is passed over
cleanLive(childNodes, i) ==
  IF i > Len(childNodes) THEN childNodes
  ELSE cleanLive(SubSeq(childNodes, 1, i - 1) \o cleanElement(childNodes[i])
                   \o SubSeq(childNodes, i + 1, Len(childNodes)),
                 i + 1)

\* for (const child of [...el.childNodes]) cleanElement(child): every child
\* of the copy is visited
cleanSnapshot(childNodes) ==
  Flatten([i \in DOMAIN childNodes |-> cleanElement(childNodes[i])])

cleanElement(el) ==
  IF el.type # "element" THEN <<el>>
  ELSE IF el.tag \notin allowedElements
  THEN IF el.children # <<>>
       THEN <<Elem("span",
                   <<Attr("class", <<"converted-" \o el.tag>>)>>,
                   cleanLive(el.children, 1))>>
       ELSE <<>>
  ELSE <<Elem(el.tag,
              SelectSeq(el.attrs, LAMBDA a : isAllowed(el.tag, a.name)),
              cleanSnapshot(el.children))>>

\* the body after cleaning
preprocessHtmlWithDenoDom(body) == cleanSnapshot(body)

(***************************************************************************)
(* URL helpers of the image pipeline.                                      *)
(***************************************************************************)
\* ["http:", "https:", "blob:"].includes(new URL(str).protocol)
\* a mutant of isurl: every non-empty string is taken for a URL to fetch
isurlAny(str) == str # <<>>

isurl(str) == str # <<>> /\ str[1] \in {"http:", "https:", "blob:"}

\* the pieces of s between the atoms of set Sep (String.split)
RECURSIVE Split(_, _)
Split(s, Sep) ==
  IF \E i \in DOMAIN s : s[i] \in Sep
  THEN LET i == CHOOSE j \in DOMAIN s :
                  s[j] \in Sep /\ \A h \in 1..(j - 1) : s[h] \notin Sep
       IN <<SubSeq(s, 1, i - 1)>> \o Split(SubSeq(s, i + 1, Len(s)), Sep)
  ELSE <<s>>

\* entry.trim().split(/\s+/)
Words(s) == SelectSeq(Split(s, {" "}), LAMBDA w : w # <<>>)

\* Number.parseInt(size): the leading run of digits (-1 stands for NaN)
DigitValue(d) ==
  CASE d = "1" -> 1 [] d = "100" -> 100 [] d = "160" -> 160 [] d = "200" -> 200
    [] OTHER -> -1
parseInt(size) ==
  IF size # <<>> /\ size[1] \in Digits THEN DigitValue(size[1]) ELSE -1

\* one srcset candidate: {url, width}
Candidate(entry) ==
  LET w == Words(entry)
      url == IF Len(w) >= 1 THEN w[1] ELSE <<>>
      size == IF Len(w) >= 2 THEN w[2] ELSE <<>>
  IN [url |-> url,
      width |-> IF size # <<>> /\ size[Len(size)] = "w" THEN parseInt(size) ELSE 0]

\* (a, b) => b.width - a.width, where -1 stands for NaN;
\* Array.prototype.sort takes a NaN for +0
byWidth(a, b) ==
  IF a.width = -1 \/ b.width = -1 THEN 0 ELSE b.width - a.width

\* candidates.sort((a, b) => b.width - a.width): stable, widest first
RECURSIVE InsertByWidth(_, _)
InsertByWidth(sorted, c) ==
  IF sorted = <<>> THEN <<c>>
  ELSE IF byWidth(Head(sorted), c) <= 0
       THEN <<Head(sorted)>> \o InsertByWidth(Tail(sorted), c)
       ELSE <<c>> \o sorted
RECURSIVE SortByWidth(_)
SortByWidth(cs) ==
  IF cs = <<>> THEN <<>>
  ELSE InsertByWidth(SortByWidth(SubSeq(cs, 1, Len(cs) - 1)), cs[Len(cs)])

\* the URL the pipeline works on: the widest srcset candidate, else src
chosenUrl(img) ==
  LET srcset == getAttribute(img, "srcset")
      candidates == SortByWidth([i \in DOMAIN Split(srcset, {","}) |->
                                   Candidate(Split(srcset, {","})[i])])
      fromSet == IF srcset # <<>> /\ candidates # <<>>
                 THEN candidates[1].url ELSE <<>>
  IN IF fromSet # <<>> THEN fromSet ELSE getAttribute(img, "src")

\* url.split(".").pop().split("?")[0] || dflt
extOr(url, dflt) ==
  LET last == Split(url, {"."})[Len(Split(url, {"."}))]
      ext == Split(last, {"?"})[1]
  IN IF ext = <<>> THEN dflt ELSE ext

\* the extension of an image of a chapter
extOf(url) == extOr(url, <<"img">>)

getMediaTypeFromExt(ext) ==
  CASE ext \in {"jpg", "jpeg"} -> "image/jpeg"
    [] ext = "png" -> "image/png"
    [] ext = "gif" -> "image/gif"
    [] ext = "svg" -> "image/svg+xml"
    [] ext = "webp" -> "image/webp"
    [] OTHER -> "application/octet-stream"

getExtFromMediaType(mediaType) ==
  CASE mediaType = "image/jpeg" -> "jpg"
    [] mediaType = "image/png" -> "png"
    [] mediaType = "image/gif" -> "gif"
    [] mediaType = "image/svg+xml" -> "svg"
    [] mediaType = "image/webp" -> "webp"
    [] OTHER -> "img"

(***************************************************************************)
(* Tree helpers of the image pipeline: the images of a body in document    *)
(* order (querySelectorAll("img")) and every element (querySelectorAll     *)
(* ("*")).                                                                 *)
(***************************************************************************)
RECURSIVE ImgCount(_)
ImgCount(nodes) ==
  IF nodes = <<>> THEN 0
  ELSE LET n == Head(nodes)
       IN (IF n.type = "element" /\ n.tag = "img" THEN 1 ELSE 0)
          + ImgCount(n.children) + ImgCount(Tail(nodes))

\* the k-th image of the body, in document order
RECURSIVE NthImg(_, _)
NthImg(nodes, k) ==
  LET n == Head(nodes)
      self == IF n.type = "element" /\ n.tag = "img" THEN 1 ELSE 0
      below == ImgCount(n.children)
  IN IF self = 1 /\ k = 1 THEN n
     ELSE IF k - self <= below THEN NthImg(n.children, k - self)
     ELSE NthImg(Tail(nodes), k - self - below)

\* the body with its k-th image replaced by img
RECURSIVE SetNthImg(_, _, _)
SetNthImg(nodes, k, img) ==
  LET n == Head(nodes)
      self == IF n.type = "element" /\ n.tag = "img" THEN 1 ELSE 0
      below == ImgCount(n.children)
  IN IF self = 1 /\ k = 1 THEN <<img>> \o Tail(nodes)
     ELSE IF k - self <= below
          THEN <<[n EXCEPT !.children = SetNthImg(n.children, k - self, img)]>>
               \o Tail(nodes)
     ELSE <<n>> \o SetNthImg(Tail(nodes), k - self - below, img)

\* img.removeAttribute("width"); img.removeAttribute("height")
stripSize(el) == removeAttribute(removeAttribute(el, "width"), "height")

\* a mutant of stripAll: the elements keep their attributes
stripNone(nodes) == nodes

\* for (const element of doc.querySelectorAll("*")) strip width and height
RECURSIVE stripAll(_)
stripAll(nodes) ==
  [i \in DOMAIN nodes |->
     IF nodes[i].type = "element"
     THEN [stripSize(nodes[i]) EXCEPT !.children = stripAll(nodes[i].children)]
     ELSE nodes[i]]

(***************************************************************************)
(* The Epub document.                                                      *)
(***************************************************************************)
VARIABLES
  metadata,       \* this.metadata: cover (Undefined when unset) and language
  items,          \* this.items: sequence of EpubItem
  spine,          \* this.spine: sequence of item ids
  toc,            \* this.toc: forest of NavPoint
  cssFiles,       \* this.cssFiles: sequence of hrefs
  uniqueIdCount,  \* this.uniqueIdCount
  calls,          \* the addChapter calls in flight, each at an await
  result,         \* the outcome of the operation that completed last
  nops,           \* operations issued so far
  awaited,        \* every operation so far was issued with no call in flight
  input,          \* the argument of the pure function under check
  output          \* its value, once applied

vars ==
  <<metadata, items, spine, toc, cssFiles, uniqueIdCount, calls, result, nops,
    awaited, input, output>>
epub == <<metadata, items, spine, toc, cssFiles, uniqueIdCount>>

Undefined == "undefined"
XHTML == "application/xhtml+xml"

Item(id, href, mediaType, properties, content) ==
  [id |-> id, href |-> href, mediaType |-> mediaType,
   properties |-> properties, content |-> content]
NavPoint(id, label, content) ==
  [id |-> id, label |-> label, content |-> content, children |-> <<>>]

\* a mutant of addImage: the new Item takes the place of the last one
addImageOverLast(its, cover, id, filename, data, mediaType) ==
  SubSeq(its, 1, Len(its) - 1)
    \o <<Item(id, <<"images", "/", filename>>, mediaType,
              IF id = cover THEN "cover-image" ELSE Undefined, data)>>

\* a mutant of addImage: the cover-image property is never set
addImageNeverCover(its, cover, id, filename, data, mediaType) ==
  Append(its,
         Item(id, <<"images", "/", filename>>, mediaType, Undefined, data))

\* a mutant of addImage: the href is the file name, without its directory
addImageFlat(its, cover, id, filename, data, mediaType) ==
  Append(its,
         Item(id, <<filename>>, mediaType,
              IF id = cover THEN "cover-image" ELSE Undefined, data))

\* the state of items after this.addImage(id, filename, data, mediaType)
addImage(its, cover, id, filename, data, mediaType) ==
  Append(its,
         Item(id, <<"images", "/", filename>>, mediaType,
              IF id = cover THEN "cover-image" ELSE Undefined, data))

\* the bytes a successful fetch of url delivers
Bytes(url) == <<"bytes(" \o Join(url) \o ")">>

(***************************************************************************)
(* addChapter.  A call in flight is a record: its serial number n, its     *)
(* arguments, the base id, the parts still to process (todo), the parsed   *)
(* document of the part in work (doc), the index k of the image the        *)
(* pipeline is at, and the parts already converted (partHtmls).            *)
(* imageProcessing runs a call's synchronous code up to its next await of  *)
(* a fetch, or to the end of its last part.                                *)
(***************************************************************************)
\* html.slice().sort((a, b) => a[0] - b[0]): stable, ascending
RECURSIVE InsertByOrder(_, _)
InsertByOrder(sorted, p) ==
  IF sorted = <<>> THEN <<p>>
  ELSE IF Head(sorted).order <= p.order
       THEN <<Head(sorted)>> \o InsertByOrder(Tail(sorted), p)
       ELSE <<p>> \o sorted
RECURSIVE SortByOrder(_)
SortByOrder(ps) ==
  IF ps = <<>> THEN <<>>
  ELSE InsertByOrder(SortByOrder(SubSeq(ps, 1, Len(ps) - 1)), ps[Len(ps)])

\* a mutant of partList: the pairs are taken in input order
partListUnsorted(html) == [i \in DOMAIN html.parts |-> html.parts[i].html]

\* the fragments of the html argument, in the order they become parts
partList(html) ==
  IF html.kind = "pairs" /\ Len(html.parts) > 0
  THEN [i \in DOMAIN html.parts |-> SortByOrder(html.parts)[i].html]
  ELSE [i \in DOMAIN html.parts |-> html.parts[i].html]

RECURSIVE imageProcessing(_)
\* parser.parseFromString(html, "text/html") gave no document: the text is
\* kept as one node of type "unparsed"
parseFails(doc) == doc # <<>> /\ doc[1].type = "unparsed"

imageProcessing(c) ==
  IF c.k <= ImgCount(c.doc)
  THEN IF isurl(chosenUrl(NthImg(c.doc, c.k)))
       THEN c    \* await fetch(chosenUrl)
       ELSE imageProcessing(
              [c EXCEPT !.doc = SetNthImg(c.doc, c.k, stripSize(NthImg(c.doc, c.k))),
                        !.k = c.k + 1])
  ELSE LET done == Append(c.partHtmls,
                          IF parseFails(c.doc)
                          THEN c.doc[1].data    \* if (!doc) return html
                          ELSE convertHtmlToXhtml(stripAll(c.doc)))
       IN IF c.todo = <<>>
          THEN [c EXCEPT !.partHtmls = done, !.doc = <<>>, !.k = 0]
          ELSE imageProcessing(
                 [c EXCEPT !.partHtmls = done, !.doc = Head(c.todo),
                           !.todo = Tail(c.todo), !.k = 1])

\* the call awaits the fetch of its k-th image
AwaitsFetch(c) == c.k >= 1 /\ c.k <= ImgCount(c.doc)
\* a mutant of Converted: the call goes on while a fetch is pending
ConvertedOrAwaiting(c) == TRUE

\* the call has converted all its parts
Converted(c) == c.k = 0

\* a mutant of cssLinks: only the stylesheet registered last is linked
cssLinksLastOnly(css) ==
  IF css = <<>> THEN <<>>
  ELSE <<"<link rel=\"stylesheet\" type=\"text/css\" href=\"../"
           \o Join(css[Len(css)]) \o "\"/>">>

\* one <link> per registered stylesheet
cssLinks(css) ==
  JoinLines([i \in DOMAIN css |->
               <<"<link rel=\"stylesheet\" type=\"text/css\" href=\"../"
                   \o Join(css[i]) \o "\"/>">>])

\* the XHTML shell of part i of n
finalHtml(title, lang, css, n, i, body) ==
  <<"<!DOCTYPE html><html lang=\"" \o lang \o "\"><head><title>">>
    \o escapeXml(title)
    \o (IF n > 1 THEN <<" (Part " \o ToString(i) \o ")">> ELSE <<>>)
    \o <<"</title>">> \o cssLinks(css) \o <<"</head><body>">>
    \o body \o <<"</body></html>">>

partId(id, n, i) == IF n = 1 THEN id ELSE id \o "_part" \o ToString(i)
partHref(id, n, i) == <<"text", "/", partId(id, n, i) \o ".xhtml">>

\* a mutant of chapterItems: only the first part becomes an Item
chapterItemsFirstOnly(c) ==
  IF c.partHtmls = <<>> THEN <<>>
  ELSE <<Item(partId(c.id, Len(c.partHtmls), 1),
              partHref(c.id, Len(c.partHtmls), 1), XHTML, Undefined,
              finalHtml(c.title, metadata.language, cssFiles, Len(c.partHtmls),
                        1, c.partHtmls[1]))>>

\* the chapter Items of a converted call
chapterItems(c) ==
  [i \in DOMAIN c.partHtmls |->
     Item(partId(c.id, Len(c.partHtmls), i),
          partHref(c.id, Len(c.partHtmls), i), XHTML, Undefined,
          finalHtml(c.title, metadata.language, cssFiles, Len(c.partHtmls), i,
                    c.partHtmls[i]))]

\* a mutant of tocEntries: every part gets a TOC entry
tocEntriesAllParts(c) ==
  [i \in DOMAIN c.partHtmls |->
     NavPoint(partId(c.id, Len(c.partHtmls), i), c.title,
              partHref(c.id, Len(c.partHtmls), i))]

\* the single TOC entry of the chapter: its first part
tocEntries(c) ==
  IF c.partHtmls = <<>>
  THEN <<NavPoint(Undefined, c.title, <<Undefined>>)>>
  ELSE <<NavPoint(partId(c.id, Len(c.partHtmls), 1), c.title,
                  partHref(c.id, Len(c.partHtmls), 1))>>

\* lines 249-286: push the items, the spine ids and the TOC entry, return
commit(c) ==
  /\ items' = items \o chapterItems(c)
  /\ spine' = spine \o [i \in DOMAIN c.partHtmls |->
                          partId(c.id, Len(c.partHtmls), i)]
  /\ toc' = toc \o tocEntries(c)
  /\ result' = [n |-> c.n, op |-> "addChapter",
                arg |-> [title |-> c.title, html |-> c.html, id |-> c.idArg],
                value |-> IF c.partHtmls = <<>> THEN Undefined
                          ELSE partId(c.id, Len(c.partHtmls), 1),
                threw |-> FALSE, pre |-> c.pre, fetches |-> c.fetches]

\* a mutant of preIncrement: the counter stays at 1 once it is there
preIncrementOnce(count) == IF count = 0 THEN 1 ELSE count

\* ++this.uniqueIdCount
preIncrement(count) == count + 1

\* the sizes of the document when an operation is issued
Counts ==
  [items |-> Len(items), spine |-> Len(spine), toc |-> Len(toc),
   uniqueIdCount |-> uniqueIdCount]

\* addChapter(title, html, id) up to its first await
addChapter(title, html, id) ==
  /\ nops < MaxOps
  /\ Len(calls) < MaxInFlight
  /\ nops' = nops + 1
  /\ awaited' = (awaited /\ calls = <<>>)
  /\ uniqueIdCount' = IF id = "" THEN preIncrement(uniqueIdCount)
                      ELSE uniqueIdCount
  /\ LET parts == partList(html)
         c0 == [n |-> nops + 1, title |-> title, html |-> html, idArg |-> id,
                id |-> IF id = ""
                       THEN "chapter_" \o ToString(preIncrement(uniqueIdCount))
                       ELSE id,
                todo |-> <<>>, doc |-> <<>>, k |-> 0, partHtmls |-> <<>>,
                pre |-> Counts, fetches |-> <<>>]
     IN IF parts = <<>>
        THEN \* no part, no await: the call completes at once
             /\ commit(c0)
             /\ UNCHANGED calls
        ELSE /\ calls' = Append(calls,
                                imageProcessing([c0 EXCEPT !.doc = Head(parts),
                                                           !.todo = Tail(parts),
                                                           !.k = 1]))
             /\ UNCHANGED <<items, spine, toc, result>>
  /\ UNCHANGED <<metadata, cssFiles, input, output>>

RemoveAt(s, i) == SubSeq(s, 1, i - 1) \o SubSeq(s, i + 1, Len(s))

\* a mutant of fetched: the response is used whether or not it is ok
fetchedUnchecked(outcome) == outcome \in {"ok", "notok"}

\* the fetch delivered an image: it did not throw and response.ok holds
fetched(outcome) == outcome = "ok"

\* the fetch a call awaits settles: "ok", "notok" (response.ok false) or
\* "throw" (network error)
fetchSettles(ci, outcome) ==
  /\ ci \in DOMAIN calls
  /\ AwaitsFetch(calls[ci])
  /\ LET c == calls[ci]
         img == NthImg(c.doc, c.k)
         url == chosenUrl(img)
         ext == extOf(url)
         id == "img_" \o ToString(preIncrement(uniqueIdCount)) \o "."
                 \o Join(ext)
         local == <<"../images/image_img_"
                      \o ToString(preIncrement(uniqueIdCount)), ".">>
                    \o ext
         img2 == CASE fetched(outcome) ->
                        stripSize(removeAttribute(
                          setAttribute(img, "src", local), "srcset"))
                   [] outcome = "notok" -> img     \* continue
                   [] OTHER -> stripSize(img)       \* catch
         c2 == imageProcessing(
                 [c EXCEPT !.doc = SetNthImg(c.doc, c.k, img2),
                           !.k = c.k + 1,
                           !.fetches =
                             Append(c.fetches,
                                    [src |-> getAttribute(img, "src"),
                                     srcset |-> getAttribute(img, "srcset"),
                                     url |-> url, outcome |-> outcome])])
     IN /\ calls' = [calls EXCEPT ![ci] = c2]
        /\ IF fetched(outcome)
           THEN /\ uniqueIdCount' = preIncrement(uniqueIdCount)
                /\ items' = addImage(items, metadata.cover, id, "image_" \o id,
                                     Bytes(url),
                                     getMediaTypeFromExt(Join(ext)))
           ELSE UNCHANGED <<uniqueIdCount, items>>
  /\ UNCHANGED <<metadata, spine, toc, cssFiles, result, nops, awaited, input,
                 output>>

\* a converted call resumes after its last await and completes
addChapterReturns(ci) ==
  /\ ci \in DOMAIN calls
  /\ Converted(calls[ci])
  /\ commit(calls[ci])
  /\ calls' = RemoveAt(calls, ci)
  /\ UNCHANGED <<metadata, cssFiles, uniqueIdCount, nops, awaited, input,
                 output>>

(***************************************************************************)
(* The synchronous mutators.                                               *)
(***************************************************************************)
Done(op, arg, value, threw) ==
  [n |-> nops + 1, op |-> op, arg |-> arg, value |-> value, threw |-> threw,
   pre |-> Counts, fetches |-> <<>>]

addImageOp(id, filename, data, mediaType) ==
  /\ nops < MaxOps
  /\ nops' = nops + 1
  /\ awaited' = (awaited /\ calls = <<>>)
  /\ items' = addImage(items, metadata.cover, id, filename, data, mediaType)
  /\ result' = Done("addImage", [id |-> id, filename |-> filename], Undefined,
                    FALSE)
  /\ UNCHANGED <<metadata, spine, toc, cssFiles, uniqueIdCount, calls, input,
                 output>>

addCSS(id, css) ==
  /\ nops < MaxOps
  /\ nops' = nops + 1
  /\ awaited' = (awaited /\ calls = <<>>)
  /\ items' = Append(items,
                     Item(id, <<"styles", "/", id \o ".css">>, "text/css",
                          Undefined, css))
  /\ cssFiles' = Append(cssFiles, <<"styles", "/", id \o ".css">>)
  /\ result' = Done("addCSS", [id |-> id], Undefined, FALSE)
  /\ UNCHANGED <<metadata, spine, toc, uniqueIdCount, calls, input, output>>

\* this.metadata = { ...this.metadata, ...metadata } for a partial {cover}
setMetadata(cover) ==
  /\ nops < MaxOps
  /\ nops' = nops + 1
  /\ awaited' = (awaited /\ calls = <<>>)
  /\ metadata' = [metadata EXCEPT !.cover = cover]
  /\ result' = Done("setMetadata", [cover |-> cover], Undefined, FALSE)
  /\ UNCHANGED <<items, spine, toc, cssFiles, uniqueIdCount, calls, input,
                 output>>

\* the forest after the search, and whether the parent was found: the new
\* leaf goes under the first NavPoint with the id, in pre-order
RECURSIVE addToParentNavPoint(_, _, _)
addToParentNavPoint(navPoints, parentId, newNavPoint) ==
  IF navPoints = <<>> THEN [found |-> FALSE, navPoints |-> <<>>]
  ELSE LET np == Head(navPoints)
           below == addToParentNavPoint(np.children, parentId, newNavPoint)
           rest == addToParentNavPoint(Tail(navPoints), parentId, newNavPoint)
       IN IF np.id = parentId
          THEN [found |-> TRUE,
                navPoints |->
                  <<[np EXCEPT !.children = Append(np.children, newNavPoint)]>>
                    \o Tail(navPoints)]
          ELSE IF below.found
          THEN [found |-> TRUE,
                navPoints |->
                  <<[np EXCEPT !.children = below.navPoints]>> \o Tail(navPoints)]
          ELSE [found |-> rest.found, navPoints |-> <<np>> \o rest.navPoints]

\* a mutant of insertUnder: a parent that is not found makes a root entry
insertUnderOrRoot(navPoints, parentId, newNavPoint) ==
  IF addToParentNavPoint(navPoints, parentId, newNavPoint).found
  THEN addToParentNavPoint(navPoints, parentId, newNavPoint).navPoints
  ELSE Append(navPoints, newNavPoint)

\* a mutant of insertUnder: the leaf goes under every NavPoint with the id
RECURSIVE insertUnderEvery(_, _, _)
insertUnderEvery(navPoints, parentId, newNavPoint) ==
  [i \in DOMAIN navPoints |->
     LET below == insertUnderEvery(navPoints[i].children, parentId, newNavPoint)
     IN [navPoints[i] EXCEPT
           !.children = IF navPoints[i].id = parentId
                        THEN Append(below, newNavPoint) ELSE below]]

\* the TOC after this.addToParentNavPoint(this.toc, parentId, navPoint)
insertUnder(navPoints, parentId, newNavPoint) ==
  addToParentNavPoint(navPoints, parentId, newNavPoint).navPoints

\* this.items.find((i) => i.id === id)
HasItem(id) == \E i \in DOMAIN items : items[i].id = id
FindItem(id) == items[CHOOSE i \in DOMAIN items :
                        items[i].id = id
                        /\ \A j \in 1..(i - 1) : items[j].id # id]

addToTOC(id, title, parentId) ==
  /\ nops < MaxOps
  /\ nops' = nops + 1
  /\ awaited' = (awaited /\ calls = <<>>)
  /\ IF ~HasItem(id) THEN UNCHANGED toc
     ELSE LET navPoint == NavPoint(id, title, FindItem(id).href)
          IN IF parentId = "" THEN toc' = Append(toc, navPoint)
             ELSE toc' = insertUnder(toc, parentId, navPoint)
  /\ result' = Done("addToTOC",
                    [id |-> id, title |-> title, parentId |-> parentId],
                    Undefined, FALSE)
  /\ UNCHANGED <<metadata, items, spine, cssFiles, uniqueIdCount, calls, input,
                 output>>

(***************************************************************************)
(* addCover.  The environment decides how the fetch or the file read       *)
(* ends: "ok" (with contentType, "" when the header is no image type),     *)
(* "notok" or "throw".                                                     *)
(***************************************************************************)
\* source.match(/^data:([^;]+);base64,(.+)$/): the media type, or <<>>
dataUriMatch(source) ==
  LET semi == SkipRun(source, 2, {a \in {source[i] : i \in DOMAIN source} :
                                    a # ";"})
      payload == SubSeq(source, semi + 3, Len(source))
  IN IF /\ semi > 2
        /\ semi + 3 <= Len(source)
        /\ source[semi] = ";"
        /\ source[semi + 1] = "base64"
        /\ source[semi + 2] = ","
        /\ \A i \in DOMAIN payload : payload[i] # "\n"
     THEN SubSeq(source, 2, semi - 1)
     ELSE <<>>

\* source.split(".").pop() || "jpg"
pathExt(source) ==
  LET last == Split(source, {"."})[Len(Split(source, {"."}))]
  IN IF last = <<>> THEN <<"jpg">> ELSE last

\* a mutant of coverFails: a response that is not ok is accepted
coverFailsOnThrowOnly(source, env) ==
  IF source # <<>> /\ source[1] = "data:" THEN dataUriMatch(source) = <<>>
  ELSE env.outcome = "throw"

\* the call throws
coverFails(source, env) ==
  IF source # <<>> /\ source[1] = "data:" THEN dataUriMatch(source) = <<>>
  ELSE env.outcome # "ok"

\* the extension and the media type of a cover that was read
coverExt(source, env) ==
  IF source # <<>> /\ source[1] = "data:"
  THEN getExtFromMediaType(Join(dataUriMatch(source)))
  ELSE IF isurl(source)
       THEN IF env.contentType # ""
            THEN getExtFromMediaType(env.contentType)
            ELSE Join(extOr(source, <<"jpg">>))
       ELSE Join(pathExt(source))
coverMediaType(source, env) ==
  IF source # <<>> /\ source[1] = "data:" THEN Join(dataUriMatch(source))
  ELSE IF isurl(source) /\ env.contentType # "" THEN env.contentType
  ELSE getMediaTypeFromExt(coverExt(source, env))

\* a mutant of coverId: the id is generated from the counter
coverIdGenerated == "cover_" \o ToString(uniqueIdCount + 1)

\* const coverId = "cover-image"
coverId == "cover-image"

addCover(source, env) ==
  /\ nops < MaxOps
  /\ nops' = nops + 1
  /\ awaited' = (awaited /\ calls = <<>>)
  /\ IF coverFails(source, env)
     THEN /\ result' = Done("addCover", [source |-> source, env |-> env],
                            Undefined, TRUE)
          /\ UNCHANGED <<items, metadata>>
     ELSE /\ items' = addImage(items, metadata.cover, coverId,
                               "cover." \o coverExt(source, env), Bytes(source),
                               coverMediaType(source, env))
          /\ metadata' = [metadata EXCEPT !.cover = coverId]
          /\ result' = Done("addCover", [source |-> source, env |-> env],
                            coverId, FALSE)
  /\ UNCHANGED <<spine, toc, cssFiles, uniqueIdCount, calls, input, output>>

(***************************************************************************)
(* The packager.  The archive is the sequence of the entries generate      *)
(* hands to the archive writer, in the order of the calls.                 *)
(***************************************************************************)
Entry(kind, name, content, compression) ==
  [kind |-> kind, name |-> name, content |-> content,
   compression |-> compression]

\* the XHTML items a spine may refer to
xhtmlItems ==
  SelectSeq(items, LAMBDA it : it.mediaType = XHTML /\ it.id # "nav")

\* a mutant of spineItems: the XHTML items in manifest order, whatever the
\* spine holds
spineItemsOfManifest == [i \in DOMAIN xhtmlItems |-> xhtmlItems[i].id]

\* the itemrefs before the spine is made non-empty
spineItems ==
  IF Len(spine) > 0
  THEN SelectSeq(spine,
                 LAMBDA id : \E i \in DOMAIN xhtmlItems : xhtmlItems[i].id = id)
  ELSE [i \in DOMAIN xhtmlItems |-> xhtmlItems[i].id]

\* a mutant of ensureItemref: the first XHTML item is always added
ensureItemrefAlways(refs) ==
  IF Len(xhtmlItems) > 0 THEN Append(refs, xhtmlItems[1].id) ELSE refs

\* the spine is never empty when there is an XHTML item
ensureItemref(refs) ==
  IF refs = <<>> /\ Len(xhtmlItems) > 0 THEN <<xhtmlItems[1].id>> ELSE refs

\* the manifest and the spine of the package document
generateOPF ==
  [manifest |->
     <<[id |-> "nav", href |-> "nav.xhtml", mediaType |-> XHTML,
        properties |-> "nav"]>>
       \o [i \in DOMAIN items |->
             [id |-> items[i].id, href |-> Join(items[i].href),
              mediaType |-> items[i].mediaType,
              properties |-> items[i].properties]],
   spine |-> ensureItemref(spineItems),
   cover |-> metadata.cover]

\* the nested lists of the navigation document
RECURSIVE renderToc(_)
renderToc(navPoints) ==
  IF navPoints = <<>>
  THEN IF \E i \in DOMAIN items : items[i].mediaType = XHTML /\ items[i].id # "nav"
       THEN <<"<ol><li><a href=\""
                \o Join(items[CHOOSE i \in DOMAIN items :
                                /\ items[i].mediaType = XHTML
                                /\ items[i].id # "nav"
                                /\ \A j \in 1..(i - 1) :
                                     ~(items[j].mediaType = XHTML
                                       /\ items[j].id # "nav")].href)
                \o "\">Start</a></li></ol>">>
       ELSE <<"<ol><li><a href=\"#\">Start</a></li></ol>">>
  ELSE <<"<ol>">>
       \o Flatten([i \in DOMAIN navPoints |->
                     <<"<li><a href=\"" \o Join(navPoints[i].content) \o "\">">>
                       \o escapeXml(navPoints[i].label) \o <<"</a>">>
                       \o (IF navPoints[i].children # <<>>
                           THEN renderToc(navPoints[i].children) ELSE <<>>)
                       \o <<"</li>">>])
       \o <<"</ol>">>
generateNav == renderToc(toc)

\* the directory of an href: href.split("/") without its last piece
dirOf(href) ==
  LET pieces == Split(href, {"/"})
  IN Join(JoinWith([i \in 1..(Len(pieces) - 1) |-> pieces[i]], "/"))

\* the directories of the items, each once, in order of first use
RECURSIVE dirsOf(_)
dirsOf(its) ==
  IF its = <<>> THEN <<>>
  ELSE LET before == dirsOf(SubSeq(its, 1, Len(its) - 1))
           d == dirOf(its[Len(its)].href)
       IN IF Len(Split(its[Len(its)].href, {"/"})) <= 1
             \/ \E i \in DOMAIN before : before[i] = d
          THEN before ELSE Append(before, d)

\* a mutant of fixedEntries: the package document is written before mimetype
fixedEntriesOpfFirst ==
  <<Entry("file", "EPUB/content.opf", <<"content.opf">>, "DEFAULT"),
    Entry("file", "mimetype", <<"application/epub+zip">>, "STORE"),
    Entry("file", "META-INF/container.xml", <<"container.xml">>, "DEFAULT"),
    Entry("file", "EPUB/nav.xhtml", generateNav, "DEFAULT")>>

\* the four entries written before any item
fixedEntries ==
  <<Entry("file", "mimetype", <<"application/epub+zip">>, "STORE"),
    Entry("file", "META-INF/container.xml", <<"container.xml">>, "DEFAULT"),
    Entry("file", "EPUB/nav.xhtml", generateNav, "DEFAULT"),
    Entry("file", "EPUB/content.opf", <<"content.opf">>, "DEFAULT")>>

\* zip.file(name, content): JSZip keeps one entry per name, so an entry
\* with the name of an earlier one takes its place
zipFile(entries, e) ==
  IF \E i \in DOMAIN entries : entries[i].name = e.name
  THEN [entries EXCEPT ![CHOOSE i \in DOMAIN entries :
                           entries[i].name = e.name] = e]
  ELSE Append(entries, e)
\* the archive after zip.file for each of es in turn
RECURSIVE zipFiles(_, _)
zipFiles(entries, es) ==
  IF es = <<>> THEN entries
  ELSE zipFiles(zipFile(entries, Head(es)), Tail(es))

\* the entries of the archive, in the order generate adds them
zipEntries ==
  zipFiles(fixedEntries
             \o [i \in DOMAIN dirsOf(items) |->
                   Entry("folder", "EPUB/" \o dirsOf(items)[i], <<>>,
                         "DEFAULT")],
           [i \in DOMAIN items |->
              Entry("file", "EPUB/" \o Join(items[i].href), items[i].content,
                    "DEFAULT")])

generate ==
  /\ nops < MaxOps
  /\ nops' = nops + 1
  /\ awaited' = (awaited /\ calls = <<>>)
  /\ result' = Done("generate", <<>>, [zip |-> zipEntries, opf |-> generateOPF],
                    FALSE)
  /\ UNCHANGED <<epub, calls, input, output>>

\* save(filePath): generate, then write the archive
save ==
  /\ nops < MaxOps
  /\ nops' = nops + 1
  /\ awaited' = (awaited /\ calls = <<>>)
  /\ result' = Done("save", <<>>, [zip |-> zipEntries, opf |-> generateOPF],
                    FALSE)
  /\ UNCHANGED <<epub, calls, input, output>>

(***************************************************************************)
(* The inputs of the operations.                                           *)
(***************************************************************************)
RemotePng == <<"https:", "//x/y", ".", "png">>
RemoteBig == <<"https:", "//x/big", ".", "png">>
LocalPng == <<"pic", ".", "png">>
Title == <<"T", "&", "x">>

P(text) == Elem("p", <<>>, <<Text(<<text>>)>>)
FragA == <<P("a")>>
FragImg ==
  <<Elem("img", <<Attr("src", RemotePng), Attr("width", <<"100">>)>>, <<>>)>>
FragB == <<P("x")>>
FragSrcset ==
  <<Elem("div", <<Attr("height", <<"1">>)>>,
         <<Elem("img",
                <<Attr("src", LocalPng),
                  Attr("srcset",
                       RemotePng \o <<" ", "100", "w", ",", " ">> \o RemoteBig
                         \o <<" ", "200", "w">>)>>,
                <<>>)>>)>>

\* the fragment at position i of an array argument
PartFrag(i) ==
  CASE i = 1 -> FragA [] i = 2 -> FragB [] i = 3 -> <<P("w")>>
    [] OTHER -> <<P("T")>>

Html(kind, parts) == [kind |-> kind, parts |-> parts]
Part(order, html) == [order |-> order, html |-> html]

Orders == {1, 2}
\* arrays of (order, html) pairs: every order vector of 1..MaxParts pairs
PairInputs ==
  UNION {{Html("pairs", [i \in 1..n |-> Part(o[i], PartFrag(i))]) :
            o \in [1..n -> Orders]} : n \in 1..MaxParts}
    \union {Html("pairs", <<Part(2, FragImg), Part(1, FragA)>>)}
\* a PNG image as a data: URI
DataPng == <<"data:", "image/png", ";", "base64", ",", "AAAA">>
\* an image given inline, as a data: URI
FragData == <<Elem("img", <<Attr("src", DataPng)>>, <<>>)>>
\* an image that is in the container already, between its siblings
FragLocal ==
  <<P("a"),
    Elem("img", <<Attr("src", <<"../images/image_img_1", ".", "png">>),
                  Attr("width", <<"100">>)>>, <<>>),
    Elem("div", <<>>, <<P("x")>>)>>
\* a text the parser gives no document for
FragUnparsed ==
  <<[Text(<<"<b>", "a", "</b>">>) EXCEPT !.type = "unparsed"]>>
StringInputs ==
  {Html("string", <<Part(0, f)>>) :
     f \in {FragA, FragImg, FragSrcset, FragData, FragLocal, FragUnparsed}}
ArrayInputs ==
  {Html("array", <<>>), Html("array", <<Part(0, FragA), Part(0, FragB)>>)}
HtmlInputs == StringInputs \union ArrayInputs \union PairInputs
ChapterIds == {"", "x"}
\* the (html, id) arguments of the whole-document specification
DocChapterArgs ==
  {<<Html("string", <<Part(0, FragImg)>>), "">>,
   <<Html("string", <<Part(0, FragA)>>), "nav">>,
   <<Html("array", <<>>), "">>,
   <<Html("pairs", <<Part(2, FragB), Part(1, FragA)>>), "x">>}

FetchOutcomes == {"ok", "notok", "throw"}

DataNoMarker == <<"data:", "image/png", ",", "AAAA">>
DataNoPayload == <<"data:", "image/png", ";", "base64", ",">>
OkImage == [outcome |-> "ok", contentType |-> "image/png"]
OkOther == [outcome |-> "ok", contentType |-> ""]
NotOk == [outcome |-> "notok", contentType |-> ""]
Throws == [outcome |-> "throw", contentType |-> ""]
\* the (source, environment) pairs of addCover
CoverArgs ==
  {<<DataPng, OkOther>>, <<DataNoMarker, OkOther>>, <<DataNoPayload, OkOther>>,
   <<RemotePng, OkImage>>, <<RemotePng, OkOther>>, <<RemotePng, NotOk>>,
   <<RemotePng, Throws>>, <<LocalPng, OkOther>>, <<LocalPng, Throws>>}

ImageIds == {"img1"}
\* the (id, parentId) arguments of addToTOC: an id of no item, an item at
\* the root, an item under itself, an item under a parent that is not there
TocArgs == {<<"x", "">>, <<"img1", "">>, <<"img1", "img1">>, <<"img1", "x">>}
Covers == {"img1"}

(***************************************************************************)
(* The document after construction, and its operations.                    *)
(***************************************************************************)
NoResult ==
  [n |-> 0, op |-> "new", arg |-> <<>>, value |-> Undefined, threw |-> FALSE,
   pre |-> [items |-> 0, spine |-> 0, toc |-> 0, uniqueIdCount |-> 0],
   fetches |-> <<>>]

\* new Epub(metadata)
constructor ==
  /\ metadata = [cover |-> Undefined, language |-> "en"]
  /\ items = <<>>
  /\ spine = <<>>
  /\ toc = <<>>
  /\ cssFiles = <<>>
  /\ uniqueIdCount = 0
  /\ calls = <<>>
  /\ result = NoResult
  /\ nops = 0
  /\ awaited = TRUE

NoOutput == [op |-> "none", pass |-> 0, value |-> <<>>, prev |-> <<>>]

Init ==
  /\ constructor
  /\ input = <<>>
  /\ output = NoOutput

Next ==
  \/ \E a \in DocChapterArgs : addChapter(Title, a[1], a[2])
  \/ \E ci \in 1..MaxInFlight, outcome \in FetchOutcomes :
       fetchSettles(ci, outcome)
  \/ \E ci \in 1..MaxInFlight : addChapterReturns(ci)
  \/ \E id \in ImageIds : addImageOp(id, "sample.png", <<"bytes">>, "image/png")
  \/ addCSS("style", <<"css">>)
  \/ \E cover \in Covers : setMetadata(cover)
  \/ \E a \in TocArgs : addToTOC(a[1], Title, a[2])
  \/ \E a \in CoverArgs : addCover(a[1], a[2])
  \/ generate
  \/ save

Spec == Init /\ [][Next]_vars

(***************************************************************************)
(* The chapter pipeline alone: addChapter over every argument shape, the   *)
(* fetches of its images, and generate.                                    *)
(***************************************************************************)
NextChapter ==
  \/ \E html \in HtmlInputs, id \in ChapterIds :
       /\ nops < MaxChapters
       /\ calls = <<>>    \* every call is awaited
       /\ addChapter(Title, html, id)
  \/ \E ci \in 1..MaxInFlight, outcome \in FetchOutcomes :
       fetchSettles(ci, outcome)
  \/ \E ci \in 1..MaxInFlight : addChapterReturns(ci)

SpecChapter == Init /\ [][NextChapter]_vars

(***************************************************************************)
(* Stylesheets and chapters: addCSS with two ids, and addChapter.          *)
(***************************************************************************)
CssIds == {"style", "print"}
StyleChapterInputs ==
  {Html("string", <<Part(0, FragA)>>), Html("string", <<Part(0, FragImg)>>),
   Html("array", <<Part(0, FragA), Part(0, FragB)>>)}

NextStyles ==
  \/ \E id \in CssIds : addCSS(id, <<"css">>)
  \/ \E html \in StyleChapterInputs : addChapter(Title, html, "")
  \/ \E ci \in 1..MaxInFlight, outcome \in FetchOutcomes :
       fetchSettles(ci, outcome)
  \/ \E ci \in 1..MaxInFlight : addChapterReturns(ci)

SpecStyles == Init /\ [][NextStyles]_vars

(***************************************************************************)
(* The serializer, the escaping functions and the sanitizer, each applied  *)
(* to an input drawn from a bounded set.                                   *)
(***************************************************************************)
\* the trees of n nodes whose elements are labelled from E (tag, attrs) and
\* whose other leaves are from L; the forests of n nodes
RECURSIVE TreesOfSize(_, _, _)
RECURSIVE ForestsOfSize(_, _, _)
TreesOfSize(n, E, L) ==
  (IF n = 1 THEN L ELSE {})
    \union {Elem(e.tag, e.attrs, f) : e \in E, f \in ForestsOfSize(n - 1, E, L)}
ForestsOfSize(n, E, L) ==
  IF n = 0 THEN {<<>>}
  ELSE UNION {{<<t>> \o f : t \in TreesOfSize(k, E, L),
                            f \in ForestsOfSize(n - k, E, L)} : k \in 1..n}
\* the trees of at most max nodes
Trees(max, E, L) == UNION {TreesOfSize(n, E, L) : n \in 1..max}

Label(tag, attrs) == [tag |-> tag, attrs |-> attrs]

\* the nodes handed to processNode: void elements may carry children
SerializerInputs(max) ==
  Trees(max,
        {Label("br", <<>>),
         Label("img", <<Attr("src", <<"a", "&", "x">>)>>),
         Label("p", <<Attr("class", <<"x">>)>>)},
        {Text(<<"a", "<">>), Comment(<<"x">>)})

\* the nodes handed to cleanElement
SanitizerInputs(max) ==
  Trees(max,
        {Label("span", <<>>),
         Label("div", <<Attr("onclick", <<"x">>), Attr("class", <<"x">>),
                        Attr("data-x", <<"1">>)>>),
         Label("a", <<Attr("href", <<"x">>), Attr("src", <<"x">>)>>),
         Label("tk", <<Attr("id", <<"x">>)>>),
         Label("font", <<>>)},
        {Text(<<"a">>),
         Elem("img", <<Attr("src", <<"x">>), Attr("onload", <<"x">>)>>, <<>>)})

\* the atoms of the strings handed to the escaping functions
EscapeAtoms == {"&", "<", ">", "\"", ";", "#", "amp", "160", "\n", "nbsp"}
\* the strings of at most max atoms
EscapeInputs(max) == UNION {[1..n -> EscapeAtoms] : n \in 0..max}

Applied(op, pass, value, prev) ==
  [op |-> op, pass |-> pass, value |-> value, prev |-> prev]

InitSerializer ==
  constructor /\ input \in SerializerInputs(MaxNodes) /\ output = NoOutput
serialize ==
  /\ output = NoOutput
  /\ output' = Applied("processNode", 1, processNode(input), <<>>)
  /\ UNCHANGED <<epub, calls, result, nops, awaited, input>>
SpecSerializer == InitSerializer /\ [][serialize]_vars

InitSanitizer ==
  constructor /\ input \in SanitizerInputs(MaxNodes) /\ output = NoOutput
sanitize ==
  /\ output = NoOutput
  /\ output' = Applied("cleanElement", 1,
                       preprocessHtmlWithDenoDom(<<input>>), <<>>)
  /\ UNCHANGED <<epub, calls, result, nops, awaited, input>>
SpecSanitizer == InitSanitizer /\ [][sanitize]_vars

\* the escaping function named op
escape(op, s) ==
  CASE op = "fixText" -> fixText(s)
    [] op = "fixAttribute" -> fixAttribute(s)
    [] op = "escapeXml" -> escapeXml(s)

\* op is applied to the input, and then once more to what it returned
applyEscape(op) ==
  /\ output.pass < 2
  /\ output.pass = 0 \/ output.op = op
  /\ LET arg == IF output.pass = 0 THEN input ELSE output.value
     IN output' = Applied(op, output.pass + 1, escape(op, arg), arg)
  /\ UNCHANGED <<epub, calls, result, nops, awaited, input>>

InitEscape == constructor /\ input \in EscapeInputs(MaxStrLen) /\ output = NoOutput
NextEscape ==
  \/ applyEscape("fixText")
  \/ applyEscape("fixAttribute")
  \/ applyEscape("escapeXml")
SpecEscape == InitEscape /\ [][NextEscape]_vars

(***************************************************************************)
(* The package document: chapters, among them one with the id of the       *)
(* navigation document, Items added through addImage, among them content   *)
(* documents that are in no Spine, and generate.                            *)
(***************************************************************************)
NextOpf ==
  \/ \E id \in {"", "nav"} :
       calls = <<>> /\ addChapter(Title, Html("string", <<Part(0, FragA)>>), id)
  \/ \E ci \in 1..MaxInFlight : addChapterReturns(ci)
  \/ \E id \in {"img1", "doc1"}, mediaType \in {"image/png", XHTML} :
       addImageOp(id, id \o ".bin", <<"bytes">>, mediaType)
  \/ generate
SpecOpf == Init /\ [][NextOpf]_vars

(***************************************************************************)
(* The table of contents: addToTOC on a document in which addImage has      *)
(* registered the Items a and b, and addToTOC has built a TOC: none, a,     *)
(* a over b next to b, a over a, or a next to a.  The operations counted    *)
(* are those that follow.                                                   *)
(***************************************************************************)
InitToc ==
  LET N(id, children) ==
        [NavPoint(id, Title, <<"images", "/", id \o ".png">>)
           EXCEPT !.children = children]
  IN /\ metadata = [cover |-> Undefined, language |-> "en"]
     /\ items = addImage(addImage(<<>>, Undefined, "a", "a.png", <<"bytes">>,
                                  "image/png"),
                         Undefined, "b", "b.png", <<"bytes">>, "image/png")
     /\ toc \in {<<>>, <<N("a", <<>>)>>,
                 <<N("a", <<N("b", <<>>)>>), N("b", <<>>)>>,
                 <<N("a", <<N("a", <<>>)>>)>>,
                 <<N("a", <<>>), N("a", <<>>)>>}
     /\ spine = <<>> /\ cssFiles = <<>> /\ uniqueIdCount = 0 /\ calls = <<>>
     /\ result = NoResult /\ nops = 0 /\ awaited = TRUE
     /\ input = <<>> /\ output = NoOutput
NextToc ==
  \E id \in {"a", "b"}, parentId \in {"", "a", "b", "x"} :
    addToTOC(id, Title, parentId)
SpecToc == InitToc /\ [][NextToc]_vars

(***************************************************************************)
(* The choice of the URL of an <img>: chosenUrl over srcset attributes of   *)
(* up to MaxCands candidates.  An input is the list of the candidates, each *)
(* a URL and a descriptor, and the src attribute.                           *)
(***************************************************************************)
\* the descriptors: none, 100w, 200w, 1x, and a w without a number
SrcsetCands ==
  [url : {RemotePng, RemoteBig, LocalPng},
   desc : {<<>>, <<"100", "w">>, <<"200", "w">>, <<"1", "x">>, <<"w">>}]

\* the width the code gives to a descriptor
widthOf(desc) == Candidate(<<"u", " ">> \o desc).width

\* the comparator is consistent over cs: the order sort gives is defined by
\* the language only then (with a NaN width next to two different widths
\* it is left to the engine)
Consistent(cs) ==
  \A i, j, k \in DOMAIN cs :
    LET w(h) == [width |-> widthOf(cs[h].desc)]
    IN (byWidth(w(i), w(j)) = 0 /\ byWidth(w(j), w(k)) = 0)
         => byWidth(w(i), w(k)) = 0

SrcsetInputs(max) ==
  {in \in [cands : UNION {[1..n -> SrcsetCands] : n \in 1..max},
           src : {LocalPng, RemoteBig}] : Consistent(in.cands)}

\* the text of the srcset attribute: "url descriptor, url descriptor"
RECURSIVE srcsetText(_)
srcsetText(cands) ==
  IF cands = <<>> THEN <<>>
  ELSE LET c == Head(cands)
           entry == c.url \o (IF c.desc = <<>> THEN <<>> ELSE <<" ">> \o c.desc)
       IN IF Tail(cands) = <<>> THEN entry
          ELSE entry \o <<",", " ">> \o srcsetText(Tail(cands))

srcsetImg(in) ==
  Elem("img", <<Attr("src", in.src), Attr("srcset", srcsetText(in.cands))>>,
       <<>>)

InitSrcset ==
  constructor /\ input \in SrcsetInputs(MaxCands) /\ output = NoOutput
choose ==
  /\ output = NoOutput
  /\ output' = Applied("chosenUrl", 1, chosenUrl(srcsetImg(input)), <<>>)
  /\ UNCHANGED <<epub, calls, result, nops, awaited, input>>
SpecSrcset == InitSrcset /\ [][choose]_vars

(***************************************************************************)
(* Properties of the chapter pipeline.                                     *)
(***************************************************************************)
\* sub occurs in s as a run of consecutive atoms
Contains(s, sub) ==
  \E i \in 0..(Len(s) - Len(sub)) : SubSeq(s, i + 1, i + Len(sub)) = sub
\* the number of occurrences of x in the sequence s
Count(s, x) == Cardinality({i \in DOMAIN s : s[i] = x})
\* the position of pair i of ps when the pairs are put in ascending order of
\* their order key, pairs of equal key keeping their input order
Rank(ps, i) ==
  1 + Cardinality({j \in DOMAIN ps :
                     \/ ps[j].order < ps[i].order
                     \/ ps[j].order = ps[i].order /\ j < i})

\* the Items and Spine ids registered since the last operation was issued
NewItems == SubSeq(items, result.pre.items + 1, Len(items))
NewXhtml == SelectSeq(NewItems, LAMBDA it : it.mediaType = XHTML)
NewSpine == SubSeq(spine, result.pre.spine + 1, Len(spine))
NewToc == SubSeq(toc, result.pre.toc + 1, Len(toc))
\* the base id of the chapter the last operation added
BaseId ==
  IF result.arg.id # "" THEN result.arg.id
  ELSE "chapter_" \o ToString(result.pre.uniqueIdCount + 1)
\* an addChapter call over (order, html) pairs has just returned
PairsReturned ==
  result.op = "addChapter" /\ result.arg.html.kind = "pairs"

\* the id of part k of n: with the suffix _part<k>, or the base id when the
\* only part may go without suffix
IdOf(n, k, bare) ==
  IF bare /\ n = 1 THEN BaseId ELSE BaseId \o "_part" \o ToString(k)

\* the pairs become parts in ascending order of their keys: part k is the
\* pair of rank k, it has the id of part k, and the Spine gains the ids in
\* that order
PartsInRankOrder(bare) ==
  LET ps == result.arg.html.parts
  IN /\ Len(NewXhtml) = Len(ps)
     /\ Len(NewSpine) = Len(ps)
     /\ \A i \in DOMAIN ps :
          LET k == Rank(ps, i)
          IN /\ NewXhtml[k].id = IdOf(Len(ps), k, bare)
             /\ NewSpine[k] = IdOf(Len(ps), k, bare)
             /\ (ImgCount(ps[i].html) = 0
                   => Contains(NewXhtml[k].content,
                               <<"</head><body>">>
                                 \o convertHtmlToXhtml(ps[i].html)
                                 \o <<"</body></html>">>))

\* C1, as stated: addChapter over (order, html) pairs makes one XHTML Item
\* per pair, with ids <id>_part1 .. <id>_partN in ascending order of the
\* order key, and appends these ids to the Spine in that order
C1_PartsAlwaysSuffixed == PairsReturned => PartsInRankOrder(FALSE)

\* C1, amended: as stated when there are two pairs or more; a single pair
\* makes one Item whose id is <id> itself, without the _part1 suffix
C1_PartsInOrder == PairsReturned => PartsInRankOrder(TRUE)

\* a call over two pairs given in descending order has returned
C1_Witness ==
  /\ PairsReturned
  /\ Len(result.arg.html.parts) = 2
  /\ result.arg.html.parts[1].order > result.arg.html.parts[2].order
  /\ Len(NewSpine) = 2

\* C2: an addChapter call that produces k >= 1 parts adds exactly one
\* NavPoint to the TOC root, with the id and the href of the first part, and
\* returns the id of the first part; every part is in the Spine
C2_OneTocEntry ==
  (result.op = "addChapter" /\ Len(result.arg.html.parts) >= 1)
    => /\ Len(NewXhtml) = Len(result.arg.html.parts)
       /\ Len(NewToc) = 1
       /\ NewToc[1].id = NewXhtml[1].id
       /\ NewToc[1].content = NewXhtml[1].href
       /\ NewToc[1].children = <<>>
       /\ result.value = NewXhtml[1].id
       /\ NewSpine = [i \in DOMAIN NewXhtml |-> NewXhtml[i].id]

\* a chapter of two parts has been added
C2_Witness ==
  /\ result.op = "addChapter"
  /\ Len(NewXhtml) = 2
  /\ Len(NewToc) = 1

\* the attribute src="..." as the serializer writes it
SrcText(src) == <<" src=\"">> \o fixAttribute(src) \o <<"\"">>
\* an image fetch of some call in flight has just failed
FetchFailed ==
  \E ci \in DOMAIN calls :
    /\ ci \in DOMAIN calls'
    /\ Len(calls'[ci].fetches) = Len(calls[ci].fetches) + 1
    /\ calls'[ci].fetches[Len(calls'[ci].fetches)].outcome # "ok"
\* an addChapter call has just returned
ChapterReturns == result'.n # result.n /\ result'.op = "addChapter"

\* C4: a failing fetch of a remote image (network error or response not ok)
\* registers no image Item; the call does not throw, the chapter it emits
\* keeps the src of that image, and the chapter is in items, Spine and TOC
C4_FetchFailureTolerated ==
  [][/\ FetchFailed => items' = items /\ uniqueIdCount' = uniqueIdCount
     /\ ChapterReturns =>
          /\ ~result'.threw
          /\ \A f \in DOMAIN result'.fetches :
               result'.fetches[f].outcome # "ok" =>
                 \E i \in (Len(items) + 1)..Len(items') :
                   /\ items'[i].mediaType = XHTML
                   /\ Contains(items'[i].content, SrcText(result'.fetches[f].src))
                   /\ items'[i].id \in {spine'[j] : j \in DOMAIN spine'}
                   /\ Len(toc') = Len(toc) + 1]_vars

\* a chapter whose only image failed to load has been added
C4_Witness ==
  /\ result.op = "addChapter"
  /\ Len(result.fetches) = 1
  /\ result.fetches[1].outcome = "throw"
  /\ Len(NewXhtml) = 1
  /\ NewXhtml[1].id \in {spine[j] : j \in DOMAIN spine}

(***************************************************************************)
(* Properties of the whole document.                                       *)
(***************************************************************************)
\* generate has completed after operations that were all awaited
Generated == result.op = "generate" /\ awaited
\* the chapter parts of the document
ChapterParts == {i \in DOMAIN items : items[i].mediaType = XHTML}
\* the number of itemrefs to id, and whether the manifest lists id as XHTML
Itemrefs(id) == Count(result.value.opf.spine, id)
InManifest(id) ==
  \E m \in DOMAIN result.value.opf.manifest :
    /\ result.value.opf.manifest[m].id = id
    /\ result.value.opf.manifest[m].mediaType = XHTML
\* the id is the id of one item only, and is not the id of the nav document
UniqueId(id) ==
  id # "nav" /\ Cardinality({i \in DOMAIN items : items[i].id = id}) = 1

\* C3, as stated: after awaited addChapter calls and generate, the OPF spine
\* has exactly one itemref for each chapter part id, and the manifest has an
\* XHTML item with that id, whether the ids are generated or caller-supplied
C3_OneItemrefPerPart ==
  Generated =>
    \A i \in ChapterParts :
      Itemrefs(items[i].id) = 1 /\ InManifest(items[i].id)

\* C3, amended: as stated for every part whose id is unique in the document
\* and is not "nav"; an id given twice has one itemref per use, and a
\* chapter with the id "nav" has no itemref
C3_OneItemrefPerUniquePart ==
  Generated =>
    \A i \in ChapterParts :
      /\ InManifest(items[i].id)
      /\ UniqueId(items[i].id) => Itemrefs(items[i].id) = 1

\* generate after two chapters, one with a generated id and one of two parts
\* with a caller-supplied id
C3_Witness ==
  /\ Generated
  /\ Cardinality(ChapterParts) = 3
  /\ \A i \in ChapterParts : UniqueId(items[i].id)
  /\ Len(result.value.opf.spine) = 3

\* an addCover call has just completed
CoverReturns == result'.n # result.n /\ result'.op = "addCover"
\* the source is a data: URI without ";base64," or without a payload
BadDataUri(source) == source \in {DataNoMarker, DataNoPayload}
\* the failure cases of addCover
CoverFailure(arg) ==
  \/ BadDataUri(arg.source)
  \/ arg.source[1] # "data:" /\ arg.env.outcome \in {"notok", "throw"}

\* C5: an addCover call that fails (bad data: URI, network error, response
\* not ok, unreadable file) throws and leaves the document as it was: no
\* Item is added and metadata.cover keeps its value
C5_CoverFailureLeavesDocument ==
  [][(CoverReturns /\ CoverFailure(result'.arg))
       => result'.threw /\ UNCHANGED epub]_vars

\* addCover has failed on a document that has a cover and items
C5_Witness ==
  /\ result.op = "addCover"
  /\ CoverFailure(result.arg)
  /\ result.threw
  /\ metadata.cover = "cover-image"
  /\ Len(items) = 2

\* the archive generate has made
Zip == result.value.zip
\* the file entries of the archive after the fourth entry
ItemEntries ==
  SelectSeq(SubSeq(Zip, 5, Len(Zip)), LAMBDA e : e.kind = "file")

\* C6: generate adds mimetype first (content application/epub+zip, stored),
\* then META-INF/container.xml, EPUB/nav.xhtml and EPUB/content.opf, and
\* the entries of the items only after these four
C6_ArchiveOrder ==
  result.op = "generate" =>
    /\ Len(Zip) >= 4
    /\ Zip[1] = Entry("file", "mimetype", <<"application/epub+zip">>, "STORE")
    /\ [i \in 1..4 |-> Zip[i].name]
         = <<"mimetype", "META-INF/container.xml", "EPUB/nav.xhtml",
             "EPUB/content.opf">>
    /\ \A i \in 2..Len(Zip) : Zip[i].name # "mimetype"
    /\ \A i \in 1..result.pre.items :
         \E e \in DOMAIN ItemEntries :
           ItemEntries[e].name = "EPUB/" \o Join(items[i].href)
    /\ \A e \in DOMAIN ItemEntries :
         \E i \in 1..result.pre.items :
           /\ ItemEntries[e].name = "EPUB/" \o Join(items[i].href)
           /\ ItemEntries[e].content = items[i].content

\* generate on a document with a chapter and an image
C6_Witness ==
  /\ result.op = "generate"
  /\ Len(ItemEntries) = 2
  /\ \E i \in DOMAIN ItemEntries : ItemEntries[i].name = "EPUB/images/sample.png"
  /\ \E i \in DOMAIN ItemEntries : ItemEntries[i].name = "EPUB/text/nav.xhtml"

\* the ids of all NavPoints of a forest
RECURSIVE AllNavIds(_)
AllNavIds(navPoints) ==
  UNION {{navPoints[i].id} \union AllNavIds(navPoints[i].children) :
           i \in DOMAIN navPoints}
\* an addToTOC call has just completed
TocReturns == result'.n # result.n /\ result'.op = "addToTOC"
\* the call named no Item, or a parent that is nowhere in the TOC
LookupMiss(arg) ==
  \/ \A i \in DOMAIN items : items[i].id # arg.id
  \/ arg.parentId # "" /\ arg.parentId \notin AllNavIds(toc)

\* C10: addToTOC with an id of no Item, or with a parentId of no NavPoint,
\* raises no error and leaves TOC, Items, Spine and metadata as they were
C10_LookupMissIsNoOp ==
  [][(TocReturns /\ LookupMiss(result'.arg))
       => ~result'.threw /\ UNCHANGED <<toc, items, spine, metadata>>]_vars

\* addToTOC has missed its parent in a TOC that has entries
C10_Witness ==
  /\ result.op = "addToTOC"
  /\ \E i \in DOMAIN items : items[i].id = result.arg.id
  /\ result.arg.parentId # ""
  /\ result.arg.parentId \notin AllNavIds(toc)
  /\ toc # <<>>
  /\ Len(toc) = result.pre.toc

(***************************************************************************)
(* Properties of the sanitizer, the serializer and the escaping functions. *)
(***************************************************************************)
\* no element outside the allow-list and no attribute outside the three
\* attribute allow-lists, at any depth
RECURSIVE AllAllowed(_)
AllAllowed(nodes) ==
  \A i \in DOMAIN nodes :
    nodes[i].type = "element" =>
      /\ nodes[i].tag \in allowedElements
      /\ \A a \in DOMAIN nodes[i].attrs :
           isAllowed(nodes[i].tag, nodes[i].attrs[a].name)
      /\ AllAllowed(nodes[i].children)

\* C7: the output of the sanitizer has, at any depth, no element outside
\* the element allow-list and no attribute outside the attribute
\* allow-lists, also below the span that replaces a disallowed element
C7_OnlyAllowedOutput ==
  output.op = "cleanElement" => AllAllowed(output.value)

\* the void elements
VoidElements ==
  {"area", "base", "br", "col", "embed", "hr", "img", "input", "link",
   "meta", "param", "source", "track", "wbr"}
\* the node without the children of its void elements
RECURSIVE Prune(_)
Prune(node) ==
  IF node.type = "element"
  THEN [node EXCEPT !.children =
          IF node.tag \in VoidElements THEN <<>>
          ELSE [i \in DOMAIN node.children |-> Prune(node.children[i])]]
  ELSE node

\* C8: a void element is emitted as one self-closed tag, without a closing
\* tag and without its children, whatever children it has, at any depth
C8_VoidSelfClosed ==
  output.op = "processNode" =>
    /\ \A t \in VoidElements : Count(output.value, "</" \o t \o ">") = 0
    /\ output.value = processNode(Prune(input))
    /\ (input.type = "element" /\ input.tag \in VoidElements)
         => output.value
              = <<"<" \o input.tag>> \o AttrText(input.attrs) \o <<" />">>

\* a p whose child is a void element with children has been serialized
C8_Witness ==
  /\ output.op = "processNode"
  /\ input.type = "element"
  /\ input.tag = "p"
  /\ \E i \in DOMAIN input.children :
       /\ input.children[i].type = "element"
       /\ input.children[i].tag \in {"br", "img"}
       /\ input.children[i].children # <<>>

\* C9: escaping what was escaped changes nothing: fixText, fixAttribute and
\* escapeXml return their own output unchanged
C9_EscapeIdempotent ==
  output.pass = 2 => output.value = output.prev

(***************************************************************************)
(* Invariants of the document.                                             *)
(***************************************************************************)
\* the content values of all NavPoints of a forest
RECURSIVE AllNavContents(_)
AllNavContents(navPoints) ==
  UNION {{navPoints[i].content} \union AllNavContents(navPoints[i].children) :
           i \in DOMAIN navPoints}

\* C11: after any sequence of operations, also an addChapter over an empty
\* collection, the content of every NavPoint of the TOC tree is the href of
\* some Item of the document
C11_TocContentIsHref ==
  \A content \in AllNavContents(toc) :
    \E i \in DOMAIN items : items[i].href = content

\* C12: after any sequence of operations, every id in the Spine is the id
\* of an Item of the document whose media type is application/xhtml+xml
C12_SpineIdsAreXhtmlItems ==
  \A s \in DOMAIN spine :
    \E i \in DOMAIN items : items[i].id = spine[s] /\ items[i].mediaType = XHTML

\* the Spine holds the parts of two chapters, among items of other types
C12_Witness ==
  /\ Len(spine) = 3
  /\ \E i \in DOMAIN items : items[i].mediaType # XHTML
  /\ calls = <<>>

\* the stylesheet link of an href, as it stands in a chapter shell
LinkAtom(href) ==
  "<link rel=\"stylesheet\" type=\"text/css\" href=\"../" \o Join(href) \o "\"/>"
\* the stylesheet links of a content, in order
LinksOf(content) ==
  SelectSeq(content,
            LAMBDA a : \E id \in CssIds :
                         a = LinkAtom(<<"styles", "/", id \o ".css">>))
\* the stylesheet Items, in registration order
CssItems == SelectSeq(items, LAMBDA it : it.mediaType = "text/css")
\* an addCSS call has just completed
CssReturns == result'.n # result.n /\ result'.op = "addCSS"

ImageReturns == result'.n # result.n /\ result'.op = "addImage"

\* C14: addImage appends exactly one Item, with the href images/<filename>
\* and with the property cover-image if and only if its id is
\* metadata.cover at the call; Spine, TOC and the CSS list are unchanged
C14_AddImageAppendsOneItem ==
  [][ImageReturns =>
       /\ Len(items') = Len(items) + 1
       /\ SubSeq(items', 1, Len(items)) = items
       /\ items'[Len(items')].id = result'.arg.id
       /\ items'[Len(items')].href = <<"images", "/", result'.arg.filename>>
       /\ (items'[Len(items')].properties = "cover-image")
            <=> (result'.arg.id = metadata.cover)
       /\ UNCHANGED <<spine, toc, cssFiles>>]_vars

\* an image has been added whose id is the cover id of the metadata
C14_Witness ==
  /\ result.op = "addImage"
  /\ metadata.cover = result.arg.id
  /\ items[Len(items)].properties = "cover-image"

\* the three shapes of a cover source
IsDataUri(source) == source[1] = "data:"
IsAbsoluteUrl(source) == source[1] \in {"http:", "https:", "blob:"}
IsLocalPath(source) == ~IsDataUri(source) /\ ~IsAbsoluteUrl(source)

\* C15: an addCover call that succeeds, for a data: URI, an absolute URL
\* or a local path, appends an image Item with the id cover-image, sets
\* metadata.cover to cover-image and returns cover-image
C15_CoverRegistered ==
  [][(CoverReturns /\ ~CoverFailure(result'.arg)) =>
       /\ ~result'.threw
       /\ result'.value = "cover-image"
       /\ metadata'.cover = "cover-image"
       /\ Len(items') = Len(items) + 1
       /\ SubSeq(items', 1, Len(items)) = items
       /\ items'[Len(items')].id = "cover-image"
       /\ items'[Len(items')].href[1] = "images"]_vars

\* a cover has been read from a local path, after one from a data: URI
C15_Witness ==
  /\ result.op = "addCover"
  /\ ~result.threw
  /\ IsLocalPath(result.arg.source)
  /\ metadata.cover = "cover-image"
  /\ Len(items) = 2
  /\ items[1].mediaType = "image/png"
  /\ items[2].id = "cover-image"

\* the width a descriptor stands for: its number when it is a number
\* followed by w, and 0 when it is missing, does not end in w or has no
\* number
NumericWidth(desc) ==
  IF Len(desc) = 2 /\ desc[2] = "w" /\ desc[1] \in {"100", "200"}
  THEN (IF desc[1] = "100" THEN 100 ELSE 200)
  ELSE 0

\* the first-listed candidate among those of the largest width
Widest(cands) ==
  CHOOSE i \in DOMAIN cands :
    /\ \A j \in DOMAIN cands :
         NumericWidth(cands[j].desc) <= NumericWidth(cands[i].desc)
    /\ \A j \in 1..(i - 1) :
         NumericWidth(cands[j].desc) < NumericWidth(cands[i].desc)

\* C16: the URL chosen for an <img> with a srcset attribute is the URL of
\* the candidate with the largest numeric width, the first-listed one of
\* them on a tie, whatever the src attribute
C16_WidestCandidateChosen ==
  output.op = "chosenUrl" => output.value = input.cands[Widest(input.cands)].url

\* C16, for the srcset attributes whose w descriptors all carry a number
C16_WidestOfNumericChosen ==
  (output.op = "chosenUrl" /\ \A i \in DOMAIN input.cands :
                               input.cands[i].desc # <<"w">>)
    => output.value = input.cands[Widest(input.cands)].url

(***************************************************************************)
(* Properties of the image pipeline.                                       *)
(***************************************************************************)
\* the images of a body, in document order
Imgs(nodes) == [k \in 1..ImgCount(nodes) |-> NthImg(nodes, k)]
\* the images of all parts of an html argument
AllImgs(html) ==
  Flatten([i \in DOMAIN html.parts |-> Imgs(html.parts[i].html)])
\* the Items registered since the last operation was issued that are not
\* content documents (the images of that operation while no call is in
\* flight)
NewImages == SelectSeq(NewItems, LAMBDA it : it.mediaType # XHTML)
\* the values of the src attributes in a serialized document
SrcValues(content) ==
  {Join(SubSeq(content, i + 1, j - 1)) :
     <<i, j>> \in {p \in (DOMAIN content) \X (DOMAIN content) :
                    /\ p[1] < p[2]
                    /\ content[p[1]] = " src=\""
                    /\ content[p[2]] = "\""
                    /\ \A h \in (p[1] + 1)..(p[2] - 1) : content[h] # "\""}}
\* the src values of the content documents the last operation added
NewSrcValues ==
  UNION {SrcValues(NewXhtml[i].content) : i \in DOMAIN NewXhtml}

\* C17: an <img> of a chapter whose URL is a data:image/png;base64 URI is
\* registered as a new image Item of media type image/png, and its src is
\* rewritten to the path of that Item
C17_DataUriRegistered ==
  (result.op = "addChapter" /\ calls = <<>>
     /\ \E k \in DOMAIN AllImgs(result.arg.html) :
          chosenUrl(AllImgs(result.arg.html)[k]) = DataPng)
    => \E i \in DOMAIN NewImages :
         /\ NewImages[i].mediaType = "image/png"
         /\ ("../" \o Join(NewImages[i].href)) \in NewSrcValues

\* the fetch of an image of some call in flight has just succeeded
FetchSucceeded ==
  \E ci \in DOMAIN calls :
    /\ ci \in DOMAIN calls'
    /\ Len(calls'[ci].fetches) = Len(calls[ci].fetches) + 1
    /\ calls'[ci].fetches[Len(calls'[ci].fetches)].outcome = "ok"

\* C18: a successful fetch registers exactly one image Item, with a fresh
\* id; when the chapter returns, each Item so registered has its href
\* images/<name> as the src ../images/<name> of the chapter, and the srcset
\* of a fetched image is gone
C18_RewrittenSrcNamesItem ==
  [][/\ FetchSucceeded =>
          /\ Len(items') = Len(items) + 1
          /\ SubSeq(items', 1, Len(items)) = items
          /\ items'[Len(items')].mediaType # XHTML
          /\ items'[Len(items')].href[1] = "images"
          /\ \A i \in DOMAIN items : items[i].id # items'[Len(items')].id
     /\ ChapterReturns =>
          LET new == SubSeq(items', result'.pre.items + 1, Len(items'))
              docs == SelectSeq(new, LAMBDA it : it.mediaType = XHTML)
              images == SelectSeq(new, LAMBDA it : it.mediaType # XHTML)
              ok == SelectSeq(result'.fetches, LAMBDA f : f.outcome = "ok")
          IN /\ Len(images) = Len(ok)
             /\ \A i \in DOMAIN images :
                  \E d \in DOMAIN docs :
                    ("../" \o Join(images[i].href))
                      \in SrcValues(docs[d].content)
             /\ \A f \in DOMAIN ok, d \in DOMAIN docs :
                  ok[f].srcset # <<>> =>
                    ~Contains(docs[d].content,
                              <<" srcset=\"">> \o fixAttribute(ok[f].srcset))
    ]_vars

\* a chapter has returned whose image, chosen from a srcset, was fetched
C18_Witness ==
  /\ result.op = "addChapter" /\ calls = <<>>
  /\ Len(result.fetches) = 1
  /\ result.fetches[1].outcome = "ok"
  /\ result.fetches[1].srcset # <<>>
  /\ Len(NewImages) = 1
  /\ ("../" \o Join(NewImages[1].href)) \in NewSrcValues

\* the body of a content document: what follows the head
Body(content) ==
  LET i == CHOOSE j \in DOMAIN content : content[j] = "</head><body>"
  IN SubSeq(content, i + 1, Len(content))
\* the start tags of a serialized document, in their order
StartTags(content) ==
  SelectSeq(content, LAMBDA a : a \in {"<p", "<img", "<div"})
\* the start tags of a tree, parents before children, siblings in order
RECURSIVE PreOrderTags(_)
PreOrderTags(nodes) ==
  IF nodes = <<>> THEN <<>>
  ELSE (IF Head(nodes).type = "element"
        THEN <<"<" \o Head(nodes).tag>> \o PreOrderTags(Head(nodes).children)
        ELSE <<>>)
       \o PreOrderTags(Tail(nodes))
\* the last operation is an addChapter call over a string or an array, and
\* no call has been issued since
PartsReturned ==
  /\ result.op = "addChapter" /\ calls = <<>>
  /\ result.arg.html.kind \in {"string", "array"}
  /\ Len(NewXhtml) = Len(result.arg.html.parts)
\* every image of the chapter has a local or relative source
AllLocal(html) ==
  \A k \in DOMAIN AllImgs(html) :
    LET url == chosenUrl(AllImgs(html)[k])
    IN url # <<>> /\ url[1] \notin {"http:", "https:", "blob:", "data:"}

\* C19: an <img> with a local or relative source triggers no fetch,
\* registers no Item and keeps its src; and whatever the images are, the
\* elements of every part keep their order
C19_LocalImageUntouched ==
  PartsReturned =>
    /\ AllLocal(result.arg.html) =>
         /\ result.fetches = <<>>
         /\ NewImages = <<>>
         /\ \A i \in DOMAIN NewXhtml :
              \A k \in DOMAIN Imgs(result.arg.html.parts[i].html) :
                Join(getAttribute(Imgs(result.arg.html.parts[i].html)[k], "src"))
                  \in SrcValues(NewXhtml[i].content)
    /\ \A i \in DOMAIN NewXhtml :
         StartTags(Body(NewXhtml[i].content))
           = PreOrderTags(result.arg.html.parts[i].html)

\* a chapter with an image that is in the container already has returned
C19_Witness ==
  /\ PartsReturned
  /\ result.arg.html = Html("string", <<Part(0, FragLocal)>>)
  /\ result.fetches = <<>>
  /\ "../images/image_img_1.png" \in SrcValues(NewXhtml[1].content)

\* C20: no element of a content document has a width or a height
\* attribute, whatever became of the fetches of its images
C20_NoWidthOrHeight ==
  \A i \in DOMAIN items :
    items[i].mediaType = XHTML =>
      \A j \in DOMAIN items[i].content :
        items[i].content[j] \notin {" width=\"", " height=\""}

\* a chapter has returned whose image had a width and whose fetch returned
\* a response that is not ok
C20_Witness ==
  /\ result.op = "addChapter"
  /\ Len(result.fetches) = 1
  /\ result.fetches[1].outcome = "notok"
  /\ hasAttribute(AllImgs(result.arg.html)[1], "width")
  /\ Len(NewXhtml) = 1

(***************************************************************************)
(* Properties of the package document.                                     *)
(***************************************************************************)
\* generate was the last operation to complete; without image fetches no
\* Item and no Spine entry has been added since
GenerateReturned == result.op = "generate"
\* the ids of the XHTML-typed Items, in manifest order; without those whose
\* id is nav when exceptNav holds
XhtmlIds(exceptNav) ==
  LET docs == SelectSeq(items, LAMBDA it : /\ it.mediaType = XHTML
                                           /\ (exceptNav => it.id # "nav"))
  IN [i \in DOMAIN docs |-> docs[i].id]
\* the itemrefs are the Spine restricted to ids, or ids when the Spine is
\* empty, and there is an itemref when there is an id
SpineOver(refs, ids) ==
  LET known == SelectSeq(spine, LAMBDA id : \E i \in DOMAIN ids : ids[i] = id)
  IN /\ (spine # <<>> /\ known # <<>>) => refs = known
     /\ spine = <<>> => refs = ids
     /\ ids # <<>> => refs # <<>>

Prefix(old, new) ==
  Len(old) <= Len(new) /\ SubSeq(new, 1, Len(old)) = old
\* every NavPoint of old is in new at its place, with its id, label and
\* content, and its children are extended in the same way
RECURSIVE Extends(_, _)
Extends(old, new) ==
  /\ Len(old) <= Len(new)
  /\ \A i \in DOMAIN old :
       /\ new[i].id = old[i].id
       /\ new[i].label = old[i].label
       /\ new[i].content = old[i].content
       /\ Extends(old[i].children, new[i].children)
\* generate or save has just completed
PackagerReturns == result'.n # result.n /\ result'.op \in {"generate", "save"}

\* C22: every step keeps Items and Spine as prefixes of what they become
\* and every NavPoint in its place, and generate and save change none of
\* Items, Spine, TOC and metadata
C22_DocumentOnlyGrows ==
  [][/\ Prefix(items, items')
     /\ Prefix(spine, spine')
     /\ Extends(toc, toc')
     /\ PackagerReturns => UNCHANGED <<items, spine, toc, metadata>>]_vars

\* a leaf has been put under a NavPoint of a document that holds Items
C22_Witness ==
  /\ result.op = "addToTOC"
  /\ Len(toc) = 1
  /\ Len(toc[1].children) = 1
  /\ items # <<>>

\* the images of an html argument the pipeline fetches
RemoteImgs(html) ==
  SelectSeq(AllImgs(html),
            LAMBDA img : chosenUrl(img) # <<>>
                         /\ chosenUrl(img)[1] \in {"http:", "https:", "blob:"})

\* C23: when an addChapter call returns, each fetch of its images has
\* settled, the Item of each fetched image was registered before the
\* chapter Items are pushed, the chapter has the rewritten src, and the
\* call has no fetch pending
C23_FetchesSettledBeforeReturn ==
  [][ChapterReturns =>
       /\ Len(result'.fetches) = Len(RemoteImgs(result'.arg.html))
       /\ \A ci \in DOMAIN calls' : calls'[ci].n # result'.n
       /\ \A i \in (Len(items) + 1)..Len(items') : items'[i].mediaType = XHTML
       /\ \A f \in DOMAIN result'.fetches :
            result'.fetches[f].outcome = "ok" =>
              \E i \in DOMAIN items, j \in (Len(items) + 1)..Len(items') :
                /\ items[i].mediaType # XHTML
                /\ ("../" \o Join(items[i].href)) \in SrcValues(items'[j].content)
    ]_vars

\* a call whose image was fetched has returned while another call, issued
\* without awaiting it, is in flight
C23_Witness ==
  /\ result.op = "addChapter"
  /\ Len(result.fetches) = 1
  /\ result.fetches[1].outcome = "ok"
  /\ calls # <<>>
  /\ \E i \in DOMAIN items : items[i].mediaType # XHTML

\* the text of a fragment the parser gave no document for, without its
\* markup tags
StripTags(raw) == SelectSeq(raw, LAMBDA a : a \notin {"<b>", "</b>"})

\* C24: when the HTML of a chapter cannot be parsed, addChapter does not
\* throw and registers the chapter, whose body is the original text with
\* its markup tags stripped, wrapped in a single div
C24_ParseFailureFallsBack ==
  (result.op = "addChapter" /\ calls = <<>>
     /\ result.arg.html.kind = "string"
     /\ parseFails(result.arg.html.parts[1].html))
    => /\ ~result.threw
       /\ Len(NewXhtml) = 1
       /\ Body(NewXhtml[1].content)
            = <<"<div>">> \o StripTags(result.arg.html.parts[1].html[1].data)
                \o <<"</div>", "</body></html>">>

\* C24, the part that holds: the call does not throw and registers the
\* chapter in Items, Spine and TOC
C24_ParseFailureRegisters ==
  (result.op = "addChapter" /\ calls = <<>>
     /\ result.arg.html.kind = "string"
     /\ parseFails(result.arg.html.parts[1].html))
    => /\ ~result.threw
       /\ Len(NewXhtml) = 1
       /\ Len(NewSpine) = 1
       /\ Len(NewToc) = 1

\* generate was the last operation to complete and no Item has been
\* registered since
GeneratedNow == result.op = "generate" /\ Len(items) = result.pre.items

\* C25: generate makes exactly one archive entry per Item, at the path
\* EPUB/<href> and with the content of the Item, and the manifest has one
\* item per Item after the nav entry
C25_OneEntryPerItem ==
  GeneratedNow =>
    /\ Len(ItemEntries) = Len(items)
    /\ \A i \in DOMAIN items :
         \E e \in DOMAIN ItemEntries :
           /\ ItemEntries[e].name = "EPUB/" \o Join(items[i].href)
           /\ ItemEntries[e].content = items[i].content
    /\ Len(result.value.opf.manifest) = Len(items) + 1

\* C25, for documents whose Items have pairwise different hrefs
C25_OneEntryPerHref ==
  (GeneratedNow
     /\ \A i, j \in DOMAIN items : items[i].href = items[j].href => i = j)
    => /\ Len(ItemEntries) = Len(items)
       /\ \A i \in DOMAIN items :
            /\ ItemEntries[i].name = "EPUB/" \o Join(items[i].href)
            /\ ItemEntries[i].content = items[i].content
       /\ Len(result.value.opf.manifest) = Len(items) + 1

\* C26: a remote image referenced by several <img>, in one fragment or
\* across chapters, is registered as one Item: no two image Items hold the
\* bytes of the same URL, and every reference has the path of that Item
C26_RemoteImagesDeduplicated ==
  \A i, j \in DOMAIN items :
    (items[i].mediaType # XHTML /\ items[j].mediaType # XHTML
       /\ items[i].content = items[j].content)
      => i = j

(***************************************************************************)
(* Properties of the table of contents.                                    *)
(***************************************************************************)
\* the paths to the NavPoints of a forest, parents before children and
\* siblings in order
RECURSIVE PreOrderPaths(_, _)
PreOrderPaths(navPoints, at) ==
  Flatten([i \in DOMAIN navPoints |->
             <<Append(at, i)>>
               \o PreOrderPaths(navPoints[i].children, Append(at, i))])
\* the NavPoint at a path
RECURSIVE NodeAt(_, _)
NodeAt(navPoints, path) ==
  IF Len(path) = 1 THEN navPoints[path[1]]
  ELSE NodeAt(navPoints[path[1]].children, Tail(path))
\* the forest with leaf as the last child of the NavPoint at a path
RECURSIVE WithChildAt(_, _, _)
WithChildAt(navPoints, path, leaf) ==
  [navPoints EXCEPT
     ![path[1]].children =
        IF Len(path) = 1 THEN Append(@, leaf)
        ELSE WithChildAt(@, Tail(path), leaf)]
\* the path to the first NavPoint with the id, in pre-order
FirstWithId(navPoints, id) ==
  LET paths == PreOrderPaths(navPoints, <<>>)
      k == CHOOSE j \in DOMAIN paths :
             /\ NodeAt(navPoints, paths[j]).id = id
             /\ \A h \in 1..(j - 1) : NodeAt(navPoints, paths[h]).id # id
  IN paths[k]
\* the number of NavPoints with the id
WithId(navPoints, id) ==
  Cardinality({j \in DOMAIN PreOrderPaths(navPoints, <<>>) :
                 NodeAt(navPoints, PreOrderPaths(navPoints, <<>>)[j]).id = id})

\* C27: addToTOC with the id of an Item and a parentId that some NavPoint
\* has puts the leaf last under the first NavPoint with that id in
\* pre-order; one NavPoint is added and nothing else changes
C27_LeafUnderFirstMatch ==
  [][(TocReturns
        /\ (\E i \in DOMAIN items : items[i].id = result'.arg.id)
        /\ result'.arg.parentId \in AllNavIds(toc))
       => /\ toc' = WithChildAt(
                      toc, FirstWithId(toc, result'.arg.parentId),
                      [id |-> result'.arg.id, label |-> result'.arg.title,
                       content |-> <<"images", "/", result'.arg.id \o ".png">>,
                       children |-> <<>>])
          /\ Len(PreOrderPaths(toc', <<>>)) = Len(PreOrderPaths(toc, <<>>)) + 1
          /\ UNCHANGED <<items, spine, metadata>>]_vars

\* a leaf has been put under the b below a, while the TOC has another b at
\* the root, after a
C27_Witness ==
  /\ result.op = "addToTOC"
  /\ result.arg.parentId = "b"
  /\ Len(toc) = 2
  /\ toc[2].id = "b" /\ toc[2].children = <<>>
  /\ Len(toc[1].children) = 1
  /\ Len(toc[1].children[1].children) = 1

(***************************************************************************)
(* Properties of the generated ids.                                        *)
(***************************************************************************)
\* the ids the document may generate with the number n: chapter_n, its
\* parts, and img_n.<ext>
IdsOfNumber ==
  [n \in 1..(2 * MaxOps) |->
     {"chapter_" \o ToString(n), "img_" \o ToString(n) \o ".png",
      "img_" \o ToString(n) \o ".img"}
       \union {"chapter_" \o ToString(n) \o "_part" \o ToString(k) :
                 k \in 1..(MaxParts + 1)}]
\* the number in a generated id, 0 for an id the caller gave
NumberOf(id) ==
  IF \E n \in DOMAIN IdsOfNumber : id \in IdsOfNumber[n]
  THEN CHOOSE n \in DOMAIN IdsOfNumber : id \in IdsOfNumber[n]
  ELSE 0
\* the generated ids in use: those of the Items, then the base ids of the
\* calls in flight that were given no id
IdsInUse ==
  LET held == SelectSeq(items, LAMBDA it : NumberOf(it.id) # 0)
      pending == SelectSeq(calls, LAMBDA c : c.idArg = "")
  IN [i \in DOMAIN held |-> held[i].id]
       \o [i \in DOMAIN pending |-> pending[i].id]
\* no id twice, and no number in the ids of two calls or images
AllDistinct(ids) ==
  /\ \A i, j \in DOMAIN ids : i # j => ids[i] # ids[j]
  /\ \A i \in DOMAIN ids : NumberOf(ids[i]) <= uniqueIdCount

\* C28: the generated ids, chapter_N and img_N.<ext>, are pairwise distinct
\* and the counter never decreases, on every step of every interleaving,
\* calls that were not awaited included
C28_GeneratedIdsDistinct ==
  /\ [][uniqueIdCount' >= uniqueIdCount]_vars
  /\ [](AllDistinct(IdsInUse))

\* two calls issued without awaiting have both returned, and the image of
\* one of them has been registered
C28_Witness ==
  /\ ~awaited
  /\ calls = <<>>
  /\ Len(IdsInUse) = 3
  /\ \E i \in DOMAIN items : items[i].id = "img_3.png"

(***************************************************************************)
(* Properties of the cover.                                                *)
(***************************************************************************)
\* C29: after an addCover that succeeded, the Items whose id is
\* metadata.cover have the property cover-image, and there is one
C29_CoverItemFlagged ==
  (result.op = "addCover" /\ ~result.threw) =>
    /\ \E i \in DOMAIN items : items[i].id = metadata.cover
    /\ \A i \in DOMAIN items :
         items[i].id = metadata.cover => items[i].properties = "cover-image"

(***************************************************************************)
(* Properties of the packager towards calls in flight.                     *)
(***************************************************************************)
\* the ids a call gives its chapter Items: its id, or its id with a part
\* suffix
PartIdsOf(c) ==
  {c.id} \union {c.id \o "_part" \o ToString(k) : k \in 1..(MaxParts + 1)}
\* the archive of the last generate or save has the chapter of the call:
\* a manifest item, an itemref to it, and the entry of its content
Packaged(c) ==
  \E m \in DOMAIN result.value.opf.manifest :
    LET it == result.value.opf.manifest[m]
    IN /\ it.id \in PartIdsOf(c)
       /\ it.mediaType = XHTML
       /\ Count(result.value.opf.spine, it.id) >= 1
       /\ \E e \in DOMAIN result.value.zip :
            result.value.zip[e].name = "EPUB/" \o it.href

\* C30: the archive generate or save has made holds the chapter of every
\* addChapter call issued before it, whether or not the call has returned
C30_IssuedChaptersPackaged ==
  result.op \in {"generate", "save"} =>
    \A ci \in DOMAIN calls :
      calls[ci].n < result.n => Packaged(calls[ci])


=============================================================================
